---------------------------- MODULE Spec2Model ----------------------------
(***************************************************************************)
(* VerifiAI backend: the /verify request (app/main.py), the credibility    *)
(* scorer classify_text (app/model.py) and the fact-check summary          *)
(* summarize_claims (app/factcheck.py), as a state machine.                *)
(*                                                                         *)
(* Texts are TLA+ strings; a character is a string of length 1.           *)
(* Fixed-point numbers: penalties and confidences are in hundredths,       *)
(* sentiment magnitudes in tenths, the score before rounding in tenths.    *)
(* Python's None is the string None for string-valued slots and the        *)
(* number NoClient for the language client handle.                         *)
(* The non-ASCII characters of the explanation strings are written in      *)
(* ASCII: "~" for the approximately-equal sign, "-" for the em dash and    *)
(* "..." for the ellipsis.                                                 *)
(***************************************************************************)
EXTENDS Integers, Sequences, FiniteSets, TLC

VARIABLES env,          \* which deployment: names the inputs the host and providers supply
          cache,        \* the lru_cache(maxsize=1) of _client: <<>> or <<value>>
          constructed,  \* how many times LanguageServiceClient() was called
          db,           \* firebase._DB is set
          req           \* per worker thread: the request it is serving

vars == <<env, cache, constructed, db, req>>

None == "None"
NoClient == 0

(***************************************************************************)
(* Characters and strings                                                  *)
(***************************************************************************)
UpperAlpha == "ABCDEFGHIJKLMNOPQRSTUVWXYZ"
LowerAlpha == "abcdefghijklmnopqrstuvwxyz"

Ch(s, i) == SubSeq(s, i, i)

Min(a, b) == IF a < b THEN a ELSE b
Max(a, b) == IF a > b THEN a ELSE b

UpperSet ==
  {"A", "B", "C", "D", "E", "F", "G", "H", "I", "J", "K", "L", "M",
   "N", "O", "P", "Q", "R", "S", "T", "U", "V", "W", "X", "Y", "Z"}
LowerSet ==
  {"a", "b", "c", "d", "e", "f", "g", "h", "i", "j", "k", "l", "m",
   "n", "o", "p", "q", "r", "s", "t", "u", "v", "w", "x", "y", "z"}
Letters == UpperSet \cup LowerSet
Whitespace == {" ", "\n", "\t"}

\* str.isupper() of one character
IsUpper(c) == c \in UpperSet

\* [a-zA-Z]
IsLetter(c) == c \in Letters

\* position of a letter in the alphabet, 0 for anything else
AlphaIndex(c) ==
  IF IsLetter(c)
    THEN CHOOSE i \in 1..26 : Ch(UpperAlpha, i) = c \/ Ch(LowerAlpha, i) = c
    ELSE 0

LowerCh(c) == IF IsUpper(c) THEN Ch(LowerAlpha, AlphaIndex(c)) ELSE c

SetMin(S) == CHOOSE x \in S : \A y \in S : x <= y
SetMax(S) == CHOOSE x \in S : \A y \in S : x >= y

\* str.lower() of s[lo..hi], by halves
RECURSIVE LowerRange(_, _, _)
LowerRange(s, lo, hi) ==
  IF lo > hi THEN ""
  ELSE IF lo = hi THEN LowerCh(Ch(s, lo))
  ELSE LET mid == (lo + hi) \div 2
       IN  LowerRange(s, lo, mid) \o LowerRange(s, mid + 1, hi)

\* str.lower()
Lower(s) == LowerRange(s, 1, Len(s))

\* s[:n]
Take(s, n) == SubSeq(s, 1, IF n < Len(s) THEN n ELSE Len(s))

\* str.count(c) for a single character, sum(1 for c in s if c.isupper()): how
\* many characters of s are in set
CountIn(s, set) == Cardinality({i \in 1..Len(s) : Ch(s, i) \in set})

\* sub in s
Contains(s, sub) ==
  \E i \in 1..(Len(s) - Len(sub) + 1) : SubSeq(s, i, i + Len(sub) - 1) = sub

\* str.strip()
RECURSIVE LStripFrom(_, _)
LStripFrom(s, i) ==
  IF i <= Len(s) /\ Ch(s, i) \in Whitespace THEN LStripFrom(s, i + 1) ELSE i

RECURSIVE RStripFrom(_, _)
RStripFrom(s, j) ==
  IF j >= 1 /\ Ch(s, j) \in Whitespace THEN RStripFrom(s, j - 1) ELSE j

Strip(s) ==
  LET i == LStripFrom(s, 1)
      j == RStripFrom(s, Len(s))
  IN  IF i > j THEN "" ELSE SubSeq(s, i, j)

\* ", ".join(xs)
RECURSIVE Join(_, _)
Join(xs, sep) ==
  IF xs = <<>> THEN ""
  ELSE IF Len(xs) = 1 THEN xs[1]
  ELSE xs[1] \o sep \o Join(Tail(xs), sep)

\* re.findall(r"[a-zA-Z]+", s): the maximal runs of letters, left to right
FindWords(s) ==
  LET at == {k \in 1..Len(s) : IsLetter(Ch(s, k))}
      starts == {k \in at : k - 1 \notin at}
      ends == {k \in at : k + 1 \notin at}
  IN  [n \in 1..Cardinality(starts) |->
         LET a == CHOOSE a \in starts : Cardinality({x \in starts : x < a}) = n - 1
         IN  SubSeq(s, a, SetMin({e \in ends : e >= a}))]

\* xs[:n] of a sequence
TakeSeq(xs, n) == SubSeq(xs, 1, IF n < Len(xs) THEN n ELSE Len(xs))

RECURSIVE FilterIn(_, _)
FilterIn(xs, set) ==
  IF xs = <<>> THEN <<>>
  ELSE (IF xs[1] \in set THEN <<xs[1]>> ELSE <<>>) \o FilterIn(Tail(xs), set)

\* Python's string order on words of letters: s < t
RECURSIVE StrLess(_, _)
StrLess(s, t) ==
  IF t = "" THEN FALSE
  ELSE IF s = "" THEN TRUE
  ELSE IF Ch(s, 1) = Ch(t, 1)
    THEN StrLess(SubSeq(s, 2, Len(s)), SubSeq(t, 2, Len(t)))
  ELSE AlphaIndex(Ch(s, 1)) < AlphaIndex(Ch(t, 1))

\* sorted(set) of lowercase words
RECURSIVE SortedWords(_)
SortedWords(set) ==
  IF set = {} THEN <<>>
  ELSE LET m == CHOOSE w \in set : \A v \in set : v = w \/ StrLess(w, v)
       IN  <<m>> \o SortedWords(set \ {m})

Range(xs) == {xs[i] : i \in DOMAIN xs}


\* dict.get(key, default)
Get(d, key, default) == IF key \in DOMAIN d THEN d[key] ELSE default

\* a Python value in a boolean context, for the strings and None
Truthy(v) == v # None /\ v # ""

(***************************************************************************)
(* app/model.py: the lexical signals                                       *)
(***************************************************************************)
SENSATIONAL ==
  {"shocking", "unbelievable", "exposed", "scandal", "meltdown", "destroyed",
   "bombshell", "secretly", "banned", "miracle", "cure", "guaranteed", "instant"}

\* re.split(r'(?<=[.!?])\s+', text.strip()): cut at each whitespace run that
\* follows a sentence-ending mark
RECURSIVE SplitFrom(_, _)
SplitFrom(s, start) ==
  LET cuts == {i \in Max(2, start)..Len(s) :
                 Ch(s, i) \in Whitespace /\ Ch(s, i - 1) \in {".", "!", "?"}}
  IN  IF cuts = {} THEN <<SubSeq(s, start, Len(s))>>
      ELSE LET i == SetMin(cuts)
           IN  <<SubSeq(s, start, i - 1)>> \o SplitFrom(s, LStripFrom(s, i))

_split_sentences(text) == SplitFrom(Strip(text), 1)

\* caps_ratio > 0.12, with caps_ratio = uppercase count / max(1, len)
CapsHeavy(s) == 100 * CountIn(s, UpperSet) > 12 * Max(1, Len(s))

\* the words of text.lower() that are in SENSATIONAL, in text order
SensationalWords(text) == FilterIn(FindWords(Lower(text)), SENSATIONAL)

\* the sensational penalty, in hundredths
_text_red_flags(text) ==
  LET exclam == CountIn(text, {"!"})
      sensational_hits == Len(SensationalWords(text))
      p1 == IF CapsHeavy(text) THEN 20 ELSE 0
      p2 == IF exclam >= 3 THEN 15 ELSE 0
      p3 == Min(25, sensational_hits * 5)
  IN  Min(60, p1 + p2 + p3)

Grounded(e) == "wikipedia_url" \in DOMAIN e.metadata \/ "mid" \in DOMAIN e.metadata

\* mutant of GroundedCount: the whole list is counted, not entities[:25]
GroundedCountAnywhere(entities) ==
  Cardinality({i \in 1..Len(entities) : Grounded(entities[i])})

\* how many of entities[:25] carry a grounding identifier
GroundedCount(entities) ==
  Cardinality({i \in 1..Min(25, Len(entities)) : Grounded(entities[i])})

\* the entity bonus, in hundredths: 0.03 per grounded entity, at most 0.3
_entity_quality(entities) == Min(30, 3 * GroundedCount(entities))

\* sorted(xs, key=..., reverse=True) of records with a field key: descending,
\* equal keys keep their order
RECURSIVE SortDesc(_)
SortDesc(xs) ==
  IF xs = <<>> THEN <<>>
  ELSE LET top == SetMax({xs[j].key : j \in DOMAIN xs})
           i == SetMin({j \in DOMAIN xs : xs[j].key = top})
       IN  <<xs[i]>> \o SortDesc(SubSeq(xs, 1, i - 1) \o SubSeq(xs, i + 1, Len(xs)))

\* the shouty bonus of one sentence, in tenths
ShoutBonus(s) ==
  (IF CountIn(s, {"!"}) >= 1 THEN 8 ELSE 0) + (IF CapsHeavy(s) THEN 8 ELSE 0)

RECURSIVE NonEmpty(_)
NonEmpty(xs) ==
  IF xs = <<>> THEN <<>>
  ELSE (IF xs[1] # "" THEN <<xs[1]>> ELSE <<>>) \o NonEmpty(Tail(xs))

KeyEntity(e) ==
  [name |-> e.name, type |-> e.type, salience |-> e.salience,
   wikipedia_url |-> Get(e.metadata, "wikipedia_url", None),
   mid |-> Get(e.metadata, "mid", None)]

\* sentences: sequence of [content, magnitude] (magnitude in tenths)
_collect_insights(text, sentences, entities) ==
  LET byS == SortDesc([i \in DOMAIN entities |->
                         [key |-> entities[i].salience, val |-> entities[i]]])
      top == TakeSeq(byS, 8)
      key_entities == [i \in DOMAIN top |-> KeyEntity(top[i].val)]
      sensational_terms == TakeSeq(SortedWords(Range(SensationalWords(text))), 10)
      fromProvider == [i \in DOMAIN sentences |->
                         [key |-> sentences[i].magnitude + ShoutBonus(sentences[i].content),
                          val |-> Strip(sentences[i].content)]]
      split == TakeSeq(_split_sentences(text), 8)
      fromText == [i \in DOMAIN split |->
                         [key |-> ShoutBonus(split[i]), val |-> Strip(split[i])]]
      candidates == IF fromProvider # <<>> THEN fromProvider ELSE fromText
      best == TakeSeq(SortDesc(candidates), 3)
      notable_sentences == NonEmpty([i \in DOMAIN best |-> best[i].val])
  IN  [key_entities |-> key_entities,
       sensational_terms |-> sensational_terms,
       notable_sentences |-> notable_sentences]


(***************************************************************************)
(* app/model.py: the scorer                                                *)
(***************************************************************************)
\* any(("news" in c) or ("law & government" in c) or ("business" in c) ...)
CategoryBonus(categories) ==
  \E i \in DOMAIN categories :
     LET c == Lower(categories[i].name)
     IN  Contains(c, "news") \/ Contains(c, "law & government") \/ Contains(c, "business")

\* bool(sentiment) of the provider's message: some field is set
SentimentSet(sentiment) == sentiment.magnitude # 0 \/ sentiment.score # 0

\* the score before rounding, in tenths of a point
RawScore(penalty, sentiment, entities, categories) ==
  500
  + (IF categories # <<>> /\ CategoryBonus(categories) THEN 50 ELSE 0)
  + 10 * _entity_quality(entities)
  - (IF SentimentSet(sentiment) THEN Min(200, sentiment.magnitude * 3) ELSE 0)
  - 10 * penalty

\* round(score) of a float that stands for t tenths: away from a tie the nearest
\* integer; at a tie the float sum's rounding error decides, so either neighbour
RoundOutcomes(t) ==
  LET q == t \div 10
      r == t % 10
  IN  IF r < 5 THEN {q} ELSE IF r > 5 THEN {q + 1} ELSE {q, q + 1}

\* max(0, min(100, n))
Clamp(n) == Max(0, Min(100, n))

LabelOf(score) ==
  IF score >= 70 THEN "true" ELSE IF score <= 30 THEN "fake" ELSE "uncertain"

\* round(num / den, 2) in hundredths, ties to even
Round2(num, den) ==
  LET q == (100 * num) \div den
      r == (100 * num) % den
  IN  IF 2 * r < den THEN q
      ELSE IF 2 * r > den THEN q + 1
      ELSE IF q % 2 = 0 THEN q ELSE q + 1

Abs(n) == IF n < 0 THEN -n ELSE n

\* mutant of ConfidenceOf: the distance is divided by the full range
ConfidenceOverRange(score) == Round2(Abs(score - 50), 100)

\* confidence = round(abs(score - 50) / 50, 2), in hundredths
ConfidenceOf(score) == Round2(Abs(score - 50), 50)

RECURSIVE NamesOf(_)
NamesOf(categories) ==
  IF categories = <<>> THEN <<>>
  ELSE <<categories[1].name>> \o NamesOf(Tail(categories))

\* the result of classify_text on the heuristic path, given the rounded score
HeuristicResult(text, penalty, sentiment, sentences, entities, categories, rounded) ==
  LET score == Clamp(rounded)
  IN  [label |-> LabelOf(score),
       score |-> score,
       confidence |-> ConfidenceOf(score),
       features |->
         [entity_wiki_hits |-> Min(25, GroundedCount(entities)),
          sentiment_magnitude |->
            IF SentimentSet(sentiment) THEN sentiment.magnitude ELSE 0,
          sensational_penalty |-> penalty,
          categories |-> TakeSeq(NamesOf(categories), 5)],
       insights |-> _collect_insights(text, sentences, entities)]

\* the result of classify_text when _analyze gave no sentiment
FallbackTerms(text) == TakeSeq(SensationalWords(text), 10)

\* mutant of FallbackResult: the penalty is left out of the features
FallbackResultNoPenalty(text, penalty) ==
  [label |-> "uncertain",
   score |-> 50,
   confidence |-> 30,
   features |->
     [sensational_penalty |-> 0,
      sentiment_magnitude |-> 0,
      entity_wiki_hits |-> 0,
      categories |-> <<>>],
   insights |->
     [key_entities |-> <<>>,
      sensational_terms |-> FallbackTerms(text),
      notable_sentences |-> TakeSeq(_split_sentences(text), 2)]]

FallbackResult(text, penalty) ==
  [label |-> "uncertain",
   score |-> 50,
   confidence |-> 30,
   features |->
     [sensational_penalty |-> penalty,
      sentiment_magnitude |-> 0,
      entity_wiki_hits |-> 0,
      categories |-> <<>>],
   insights |->
     [key_entities |-> <<>>,
      sensational_terms |-> FallbackTerms(text),
      notable_sentences |-> TakeSeq(_split_sentences(text), 2)]]

(***************************************************************************)
(* app/main.py: the explanation of verify                                  *)
(***************************************************************************)
\* c.split("/")[-1] if "/" in c else c
LastSegment(c) ==
  LET slashes == {i \in 1..Len(c) : Ch(c, i) = "/"}
  IN  IF slashes = {} THEN c ELSE SubSeq(c, SetMax(slashes) + 1, Len(c))

\* categories: dedupe by lowercase short name, keep 3
RECURSIVE ShortCats(_, _, _)
ShortCats(raw, seen, cats) ==
  IF raw = <<>> \/ Len(cats) >= 3 THEN cats
  ELSE LET short == LastSegment(raw[1])
           key == Lower(short)
       IN  IF raw[1] = "" \/ key \in seen
             THEN ShortCats(Tail(raw), seen, cats)
             ELSE ShortCats(Tail(raw), seen \cup {key}, Append(cats, short))

\* list(dict.fromkeys(xs)): first occurrences, in order
RECURSIVE Dedupe(_, _)
Dedupe(xs, seen) ==
  IF xs = <<>> THEN <<>>
  ELSE IF xs[1] \in seen THEN Dedupe(Tail(xs), seen)
  ELSE <<xs[1]>> \o Dedupe(Tail(xs), seen \cup {xs[1]})

\* key entities: dedupe by lowercase name, mark wiki, keep 4
RECURSIVE EntityNamesOf(_, _, _)
EntityNamesOf(ke, seen, names) ==
  IF ke = <<>> \/ Len(names) >= 4 THEN names
  ELSE LET nm == ke[1].name
           k == Lower(Strip(nm))
       IN  IF nm = "" \/ k \in seen
             THEN EntityNamesOf(Tail(ke), seen, names)
             ELSE EntityNamesOf(Tail(ke), seen \cup {k},
                    Append(names, IF Truthy(ke[1].wikipedia_url)
                                    THEN nm \o " (wiki)" ELSE nm))

\* notables: dedupe by lowercase content, keep 2
RECURSIVE Notables(_, _, _)
Notables(xs, seen, notables) ==
  IF xs = <<>> \/ Len(notables) >= 2 THEN notables
  ELSE LET s == Strip(xs[1])
           k == Lower(s)
       IN  IF s = "" \/ k \in seen
             THEN Notables(Tail(xs), seen, notables)
             ELSE Notables(Tail(xs), seen \cup {k}, Append(notables, s))

Digits2(n) == IF n < 10 THEN "0" \o ToString(n) ELSE ToString(n)

\* f"{pen:.2f}" of a number of hundredths
FmtHundredths(h) == ToString(h \div 100) \o "." \o Digits2(h % 100)

\* f"{mag:.2f}" of a number of tenths
FmtTenths(t) == ToString(t \div 10) \o "." \o ToString(t % 10) \o "0"

PenaltyPrefix == "Sensational writing patterns detected (penalty "
TonePrefix == "High emotional tone (sentiment magnitude ~ "
GroundedPrefix == "Grounded entities found: "
CategoryPrefix == "Topical category hints: "
EntitiesPrefix == "Key entities: "
TermsPrefix == "Sensational terms in text: "
NotablePrefix == "Notable line: \""
VerdictPrefix == "Fact Check verdict: "
GenericLine ==
  "Computed from entity grounding, sentiment magnitude, and sensational-text heuristics."

RECURSIVE NotableLines(_)
NotableLines(notables) ==
  IF notables = <<>> THEN <<>>
  ELSE LET s == notables[1]
           snippet == Take(s, 160) \o (IF Len(s) > 160 THEN "..." ELSE "")
       IN  <<NotablePrefix \o snippet \o "\"">> \o NotableLines(Tail(notables))

\* Step 2 of verify: the explanation built from the result of classify_text
Explain(result) ==
  LET f == result.features
      i == result.insights
      pen == f.sensational_penalty
      mag == f.sentiment_magnitude
      wiki_hits == f.entity_wiki_hits
      cats == ShortCats(f.categories, {}, <<>>)
      terms == TakeSeq(Dedupe(i.sensational_terms, {}), 6)
      names == EntityNamesOf(i.key_entities, {}, <<>>)
      notables == Notables(i.notable_sentences, {}, <<>>)
      lines ==
           (IF pen > 0 THEN <<PenaltyPrefix \o FmtHundredths(pen) \o ")">> ELSE <<>>)
        \o (IF mag >= 10 THEN <<TonePrefix \o FmtTenths(mag) \o ")">> ELSE <<>>)
        \o (IF wiki_hits > 0
              THEN <<GroundedPrefix \o ToString(wiki_hits)
                       \o " linked to Wikipedia/Knowledge Graph">>
              ELSE <<>>)
        \o (IF cats # <<>> THEN <<CategoryPrefix \o Join(cats, ", ")>> ELSE <<>>)
        \o (IF names # <<>> THEN <<EntitiesPrefix \o Join(names, ", ")>> ELSE <<>>)
        \o (IF terms # <<>> THEN <<TermsPrefix \o Join(terms, ", ")>> ELSE <<>>)
        \o NotableLines(notables)
  IN  IF lines = <<>> THEN <<GenericLine>> ELSE lines


(***************************************************************************)
(* app/factcheck.py: summarize_claims                                      *)
(***************************************************************************)
FakeWords == {"false", "fake", "pants on fire", "incorrect", "misleading"}
TrueWords == {"true", "correct", "mostly true", "accurate"}

\* how many claims summarize_claims scans: claims[:5]
ScannedClaims == 5

\* how many summary lines verify appends: fc_summary[:3]
ShownReviews == 3

Reviews(c) == Get(c, "claimReview", <<>>)

\* (r.get("textRating") or "").lower()
RatingOf(r) ==
  LET v == Get(r, "textRating", None)
  IN  IF Truthy(v) THEN Lower(v) ELSE ""

\* f"{publisher}: {rating} - {title} ({url})"
ReviewLine(r) ==
  Get(Get(r, "publisher", <<>>), "name", "Unknown") \o ": " \o RatingOf(r)
    \o " - " \o Get(r, "title", "") \o " (" \o Get(r, "url", "") \o ")"

\* mutant of VerdictAfter: the last matching review wins
VerdictAfterLastWins(verdict, rating) ==
  LET v1 == IF \E x \in FakeWords : Contains(rating, x) THEN "fake" ELSE verdict
  IN  IF \E x \in TrueWords : Contains(rating, x) THEN "true" ELSE v1

\* the running verdict after one more review
VerdictAfter(verdict, rating) ==
  LET v1 == IF \E x \in FakeWords : Contains(rating, x) THEN "fake" ELSE verdict
  IN  IF \E x \in TrueWords : Contains(rating, x)
        THEN (IF Truthy(v1) THEN v1 ELSE "true")
        ELSE v1

\* the next review at or after review ri of claim ci, as <<ci, ri>>; past the
\* last claim when there is none
RECURSIVE ScanPos(_, _, _)
ScanPos(claims, ci, ri) ==
  IF ci > Len(claims) THEN <<ci, 1>>
  ELSE IF ri > Len(Reviews(claims[ci])) THEN ScanPos(claims, ci + 1, 1)
  ELSE <<ci, ri>>

(***************************************************************************)
(* The inputs: payloads, provider responses, fact-check claims             *)
(***************************************************************************)
NThreads == 2
MaxWords == 2
MaxEntities == 26
MaxClaims == 6

ExampleText == "BREAKING!!! Scientists SHOCKED by new miracle cure"

AllSensationalText ==
  "Shocking unbelievable scandal exposed: secretly banned miracle cure destroyed."
    \o " Bombshell meltdown! Guaranteed instant cure, guaranteed."

Tokens == {"Miracle", "cure!!", "BANNED."}

TokenTexts ==
  UNION {{Join(ws, " ") : ws \in [1..k -> Tokens]} : k \in 1..MaxWords}

Payloads ==
  {"", "  \n", ExampleText, AllSensationalText,
   " The council met. NASA confirmed it! ",
   "Cure cure CURE cure cure Cure cure cure cure cure cure"} \cup TokenTexts

\* a provider sentiment: document magnitude (tenths) and score (tenths), and
\* whether the response carries per-sentence sentiment
Sentiments ==
  {[magnitude |-> 0, score |-> 0, sentences |-> FALSE],
   [magnitude |-> 5, score |-> -5, sentences |-> TRUE],
   [magnitude |-> 70, score |-> -2, sentences |-> TRUE]}

\* the provider's per-sentence breakdown of a document
ProviderSentences(doc, p) ==
  IF p.sentences
    THEN LET sp == _split_sentences(doc)
         IN  [i \in DOMAIN sp |->
                [content |-> sp[i], magnitude |-> IF i % 2 = 1 THEN p.magnitude ELSE 0]]
    ELSE <<>>

EntityNames == <<"NASA", "Paris", "nasa ", "">>

\* n entities of which the last g carry grounding metadata; salience in hundredths
Entities(n, g) ==
  [i \in 1..n |->
     [name |-> EntityNames[((i - 1) % Len(EntityNames)) + 1],
      type |-> "ORGANIZATION",
      salience |-> (i * 37) % 100,
      metadata |->
        IF i <= n - g THEN <<>>
        ELSE IF i % 2 = 0
          THEN [wikipedia_url |-> "https://en.wikipedia.org/wiki/E", mid |-> "/m/0e"]
          ELSE [mid |-> "/m/0f"]]]

EntityLists ==
  {Entities(0, 0), Entities(3, 0), Entities(3, 1)} \cup
  {Entities(MaxEntities, g) : g \in {1, 5, MaxEntities - 20, 12}}

CategoryLists ==
  {<<>>,
   <<[name |-> "/News/Politics"]>>,
   <<[name |-> "/Arts & Entertainment/Movies"], [name |-> "/Hobbies/movies"],
     [name |-> "Science"], [name |-> "/Law & Government/Legal"],
     [name |-> "/Health"], [name |-> "/Business & Industrial"]>>,
   <<[name |-> ""], [name |-> "/Science/Astronomy"]>>}

Review(publisher, rating, n) ==
  [publisher |-> [name |-> publisher], title |-> "Claim " \o n,
   textRating |-> rating, url |-> "https://fc.example/" \o n]

ClaimFalse == [text |-> "a", claimReview |-> <<Review("PolitiFact", "False", "1")>>]
ClaimMixed ==
  [text |-> "b",
   claimReview |-> <<Review("Snopes", "Unproven", "2"),
                     [title |-> "Claim 3", textRating |-> "Mostly True"]>>]
ClaimIncorrect == [text |-> "c", claimReview |-> <<Review("AFP", "Incorrect", "4")>>]
ClaimBare == [text |-> "d"]
ClaimUnrated == [text |-> "e", claimReview |-> <<Review("Reuters", None, "5")>>]
ClaimAccurate == [text |-> "f", claimReview |-> <<Review("FullFact", "Accurate", "6")>>]

ClaimPool == {ClaimFalse, ClaimMixed, ClaimBare}

\* every list of at most MaxClaims claims of the pool
PoolClaimLists == UNION {[1..k -> ClaimPool] : k \in 0..MaxClaims}

FewClaimLists ==
  {<<>>, <<ClaimFalse>>, <<ClaimAccurate, ClaimBare>>, <<ClaimUnrated>>,
   <<ClaimMixed, ClaimIncorrect, ClaimUnrated>>}

\* one thread serving any payload, with every provider response
WideEnv ==
  [threads |-> {1}, payloads |-> Payloads, sentiments |-> Sentiments,
   entityLists |-> EntityLists, categoryLists |-> CategoryLists,
   claimLists |-> FewClaimLists]

\* one thread, one payload, every list of fact-check claims
ClaimsEnv ==
  [threads |-> {1}, payloads |-> {ExampleText},
   sentiments |-> {[magnitude |-> 5, score |-> -5, sentences |-> TRUE]},
   entityLists |-> {Entities(3, 1)},
   categoryLists |-> {<<[name |-> "/News/Politics"]>>},
   claimLists |-> PoolClaimLists \cup FewClaimLists]

\* the host's worker threads serving one payload concurrently
ThreadsEnv ==
  [threads |-> 1..NThreads, payloads |-> {"cure!!"},
   sentiments |-> {[magnitude |-> 5, score |-> -5, sentences |-> TRUE]},
   entityLists |-> {Entities(3, 1)},
   categoryLists |-> {<<[name |-> "/News/Politics"]>>},
   claimLists |-> {<<ClaimFalse>>}]

\* the inputs of the deployment env names
World ==
  CASE env = "wide" -> WideEnv
    [] env = "claims" -> ClaimsEnv
    [] env = "threads" -> ThreadsEnv


(***************************************************************************)
(* app/main.py: Step 4 of verify, the merge of the fact-check verdict      *)
(***************************************************************************)
\* mutant of Overrides: every verdict overrides, "uncertain" too
OverridesAlways(fc_verdict) == Truthy(fc_verdict)

Overrides(fc_verdict) == Truthy(fc_verdict) /\ fc_verdict \in {"true", "fake"}

\* mutant of MergedResult: the label is overwritten and the score is not
MergedResultKeepsScore(result, fc_verdict) ==
  IF Overrides(fc_verdict)
    THEN [result EXCEPT !.label = fc_verdict, !.confidence = 90]
    ELSE result

MergedResult(result, fc_verdict) ==
  IF Overrides(fc_verdict)
    THEN [result EXCEPT !.label = fc_verdict,
                        !.score = IF fc_verdict = "true" THEN 85 ELSE 15,
                        !.confidence = 90]
    ELSE result

\* mutant of MergedExplanation: the review lines are appended only with an override
MergedExplanationOnOverride(explanation, fc_verdict, fc_summary) ==
  IF Overrides(fc_verdict)
    THEN <<VerdictPrefix \o fc_verdict>> \o explanation
           \o TakeSeq(fc_summary, ShownReviews)
    ELSE explanation

MergedExplanation(explanation, fc_verdict, fc_summary) ==
  LET e1 == IF Overrides(fc_verdict)
              THEN <<VerdictPrefix \o fc_verdict>> \o explanation
              ELSE explanation
      e2 == IF fc_summary # <<>> THEN e1 \o TakeSeq(fc_summary, ShownReviews) ELSE e1
  IN  IF e2 = <<>> THEN <<GenericLine>> ELSE e2

(***************************************************************************)
(* The requests                                                            *)
(***************************************************************************)
NoSentiment == [magnitude |-> 0, score |-> 0]

NoResult ==
  [label |-> "", score |-> 0, confidence |-> 0,
   features |-> [sensational_penalty |-> 0, sentiment_magnitude |-> 0,
                 entity_wiki_hits |-> 0, categories |-> <<>>],
   insights |-> [key_entities |-> <<>>, sensational_terms |-> <<>>,
                 notable_sentences |-> <<>>]]

\* a thread that serves no request
IdleReq ==
  [pc |-> "idle",
   text |-> "",            \* verify: payload.input.strip()
   doc |-> "",             \* classify_text: its text argument
   client |-> NoClient,    \* _analyze: client
   sent |-> <<>>,          \* the provider requests sent by this classify_text call
   sentiment |-> NoSentiment,
   sentences |-> <<>>,
   entities |-> <<>>,
   categories |-> <<>>,
   path |-> "",            \* which return of classify_text was taken
   classified |-> NoResult,\* what classify_text returned
   result |-> NoResult,    \* verify: result
   explanation |-> <<>>,   \* verify: explanation
   claims |-> <<>>,        \* summarize_claims: claims
   pos |-> <<1, 1>>,       \* summarize_claims: the claim and review scanned next
   summary |-> <<>>,       \* summarize_claims: summary
   verdict |-> None,       \* summarize_claims: verdict
   fc_verdict |-> None,    \* verify: fc_verdict
   fc_summary |-> <<>>,    \* verify: fc_summary
   article_id |-> None,
   error |-> ""]           \* the call that raised out of verify

Init ==
  /\ env = "wide"
  /\ cache = <<>>
  /\ constructed = 0
  /\ db = FALSE
  /\ req = [t \in World.threads |-> IdleReq]

InitClaims ==
  /\ env = "claims"
  /\ cache = <<>>
  /\ constructed = 0
  /\ db = FALSE
  /\ req = [t \in World.threads |-> IdleReq]

InitThreads ==
  /\ env = "threads"
  /\ cache = <<>>
  /\ constructed = 0
  /\ db = FALSE
  /\ req = [t \in World.threads |-> IdleReq]

\* verify up to the call of classify_text; get_db() succeeds
VerifyStart(t) ==
  /\ req[t].pc = "idle"
  /\ \E payload \in World.payloads :
       LET text == Strip(payload)
           title == Take(text, 120)
       IN  req' = [req EXCEPT ![t] =
                     [IdleReq EXCEPT !.pc = "client", !.text = text,
                                     !.doc = title \o ". " \o text]]
  /\ db' = TRUE
  /\ UNCHANGED <<env, cache, constructed>>

\* get_db() raises: no service account key
GetDbFails(t) ==
  /\ req[t].pc = "idle"
  /\ ~db
  /\ req' = [req EXCEPT ![t] = [IdleReq EXCEPT !.pc = "raised", !.error = "get_db"]]
  /\ UNCHANGED <<env, cache, constructed, db>>

\* where _analyze goes with the client it got
AfterClient(client) == IF client # NoClient THEN "sentiment" ELSE "fallback"

\* _client(): the lru_cache lookup
ClientLookup(t) ==
  /\ req[t].pc = "client"
  /\ IF cache # <<>>
       THEN req' = [req EXCEPT ![t].client = cache[1],
                               ![t].pc = AfterClient(cache[1])]
       ELSE req' = [req EXCEPT ![t].pc = "construct"]
  /\ UNCHANGED <<env, cache, constructed, db>>

\* what the cache holds after a miss computed value: the value stored first stays
CacheAfter(old, value) == IF old = <<>> THEN <<value>> ELSE old

\* _client() after a miss: LanguageServiceClient() is called and the value
\* cached; the caller gets the value it computed
ClientConstruct(t) ==
  /\ req[t].pc = "construct"
  /\ \E ok \in BOOLEAN :
       LET value == IF ok THEN constructed + 1 ELSE NoClient
       IN  /\ cache' = CacheAfter(cache, value)
           /\ req' = [req EXCEPT ![t].client = value, ![t].pc = AfterClient(value)]
  /\ constructed' = constructed + 1
  /\ UNCHANGED <<env, db>>

Request(op, language_code) == [op |-> op, language_code |-> language_code]

\* client.analyze_sentiment(document=doc) with language_code "en"
AnalyzeSentiment(t) ==
  /\ req[t].pc = "sentiment"
  /\ \/ \E p \in World.sentiments :
          req' = [req EXCEPT
                    ![t].sent = Append(@, Request("analyze_sentiment", "en")),
                    ![t].sentiment = [magnitude |-> p.magnitude, score |-> p.score],
                    ![t].sentences = ProviderSentences(Take(req[t].doc, 20000), p),
                    ![t].pc = "entities"]
     \/ req' = [req EXCEPT
                    ![t].sent = Append(@, Request("analyze_sentiment", "en")),
                    ![t].pc = "sentiment_auto"]
  /\ UNCHANGED <<env, cache, constructed, db>>

\* mutant of AfterAutoFailure: the request is sent again
AfterAutoFailureRetry == "sentiment_auto"

\* where _analyze goes when the auto-detection request fails too: return None, [], []
AfterAutoFailure == "fallback"

\* the except branch: client.analyze_sentiment(document=auto_doc)
AnalyzeSentimentAuto(t) ==
  /\ req[t].pc = "sentiment_auto"
  /\ \/ \E p \in World.sentiments :
          req' = [req EXCEPT
                    ![t].sent = Append(@, Request("analyze_sentiment", None)),
                    ![t].sentiment = [magnitude |-> p.magnitude, score |-> p.score],
                    ![t].sentences = ProviderSentences(Take(req[t].doc, 20000), p),
                    ![t].pc = "entities"]
     \/ req' = [req EXCEPT
                    ![t].sent = Append(@, Request("analyze_sentiment", None)),
                    ![t].pc = AfterAutoFailure]
  /\ UNCHANGED <<env, cache, constructed, db>>

\* client.analyze_entities(...): outside every try
AnalyzeEntities(t) ==
  /\ req[t].pc = "entities"
  /\ \/ \E es \in World.entityLists :
          req' = [req EXCEPT
                    ![t].sent = Append(@, Request("analyze_entities", None)),
                    ![t].entities = es,
                    ![t].pc = "categories"]
     \/ req' = [req EXCEPT ![t] =
                    [IdleReq EXCEPT !.pc = "raised", !.error = "analyze_entities",
                                    !.text = req[t].text, !.doc = req[t].doc,
                                    !.sent = Append(req[t].sent,
                                               Request("analyze_entities", None))]]
  /\ UNCHANGED <<env, cache, constructed, db>>

\* client.classify_text(...), best-effort
ClassifyCategories(t) ==
  /\ req[t].pc = "categories"
  /\ \/ \E cs \in World.categoryLists :
          req' = [req EXCEPT
                    ![t].sent = Append(@, Request("classify_text", None)),
                    ![t].categories = cs,
                    ![t].pc = "score"]
     \/ req' = [req EXCEPT
                    ![t].sent = Append(@, Request("classify_text", None)),
                    ![t].categories = <<>>,
                    ![t].pc = "score"]
  /\ UNCHANGED <<env, cache, constructed, db>>

\* classify_text from the return of _analyze to its own return, heuristic path
Score(t) ==
  /\ req[t].pc = "score"
  /\ LET r == req[t]
         penalty == _text_red_flags(r.doc)
     IN  \E rounded \in RoundOutcomes(RawScore(penalty, r.sentiment, r.entities,
                                              r.categories)) :
           LET res == HeuristicResult(r.doc, penalty, r.sentiment, r.sentences,
                                      r.entities, r.categories, rounded)
           IN  req' = [req EXCEPT ![t] =
                         [r EXCEPT !.sentiment = NoSentiment, !.sentences = <<>>,
                                   !.categories = <<>>,
                                   !.path = "heuristic", !.classified = res,
                                   !.result = res, !.pc = "explain"]]
  /\ UNCHANGED <<env, cache, constructed, db>>

\* classify_text when _analyze returned None, [], []
Fallback(t) ==
  /\ req[t].pc = "fallback"
  /\ LET res == FallbackResult(req[t].doc, _text_red_flags(req[t].doc))
     IN  req' = [req EXCEPT ![t].path = "fallback", ![t].classified = res,
                            ![t].result = res, ![t].pc = "explain"]
  /\ UNCHANGED <<env, cache, constructed, db>>

\* verify, Step 2
ExplainStep(t) ==
  /\ req[t].pc = "explain"
  /\ LET lines == Explain(req[t].result)
     IN  req' = [req EXCEPT ![t].explanation = lines, ![t].entities = <<>>,
                            ![t].pc = "factcheck"]
  /\ UNCHANGED <<env, cache, constructed, db>>

\* verify, Step 3: fact_check_search returns claims; summarize_claims starts
FactCheckSearch(t) ==
  /\ req[t].pc = "factcheck"
  /\ \E claims \in World.claimLists :
       IF claims = <<>>
         THEN req' = [req EXCEPT ![t].fc_verdict = None, ![t].fc_summary = <<>>,
                                 ![t].pc = "merge"]
         ELSE req' = [req EXCEPT ![t].claims = claims,
                                 ![t].pos = ScanPos(TakeSeq(claims, ScannedClaims), 1, 1),
                                 ![t].summary = <<>>, ![t].verdict = None,
                                 ![t].pc = "summarize"]
  /\ UNCHANGED <<env, cache, constructed, db>>

\* fact_check_search fails and returns []
FactCheckFails(t) ==
  /\ req[t].pc = "factcheck"
  /\ req' = [req EXCEPT ![t].fc_verdict = None, ![t].fc_summary = <<>>,
                        ![t].pc = "merge"]
  /\ UNCHANGED <<env, cache, constructed, db>>

\* summarize_claims: one turn of the inner loop
SummarizeStep(t) ==
  /\ req[t].pc = "summarize"
  /\ LET scanned == TakeSeq(req[t].claims, ScannedClaims)
         ci == req[t].pos[1]
         ri == req[t].pos[2]
     IN  /\ ci <= Len(scanned)
         /\ LET r == Reviews(scanned[ci])[ri]
            IN  req' = [req EXCEPT
                          ![t].summary = Append(@, ReviewLine(r)),
                          ![t].verdict = VerdictAfter(@, RatingOf(r)),
                          ![t].pos = ScanPos(scanned, ci, ri + 1)]
  /\ UNCHANGED <<env, cache, constructed, db>>

\* summarize_claims: verdict = verdict or "uncertain"; return
SummarizeReturn(t) ==
  /\ req[t].pc = "summarize"
  /\ req[t].pos[1] > Len(TakeSeq(req[t].claims, ScannedClaims))
  /\ req' = [req EXCEPT
               ![t].fc_verdict = IF Truthy(req[t].verdict) THEN req[t].verdict
                                 ELSE "uncertain",
               ![t].fc_summary = req[t].summary,
               ![t].pc = "merge"]
  /\ UNCHANGED <<env, cache, constructed, db>>

\* verify, Step 4
Merge(t) ==
  /\ req[t].pc = "merge"
  /\ req' = [req EXCEPT
               ![t].result = MergedResult(@, req[t].fc_verdict),
               ![t].explanation =
                  MergedExplanation(@, req[t].fc_verdict, req[t].fc_summary),
               ![t].pc = "save"]
  /\ UNCHANGED <<env, cache, constructed, db>>

\* verify, Step 5: save_article and save_verification, or the note
Save(t) ==
  /\ req[t].pc = "save"
  /\ \/ req' = [req EXCEPT ![t].article_id = "article-1", ![t].pc = "done"]
     \/ \E id \in {None, "article-1"} :
          req' = [req EXCEPT
                    ![t].article_id = id,
                    ![t].explanation = Append(@, "(Note: DB save skipped: Unavailable)"),
                    ![t].pc = "done"]
  /\ UNCHANGED <<env, cache, constructed, db>>

\* verify, Step 6: the response is returned
Return(t) ==
  /\ req[t].pc = "done"
  /\ req' = [req EXCEPT ![t] = IdleReq]
  /\ UNCHANGED <<env, cache, constructed, db>>

\* the host answers a request whose handler raised
Abort(t) ==
  /\ req[t].pc = "raised"
  /\ req' = [req EXCEPT ![t] = IdleReq]
  /\ UNCHANGED <<env, cache, constructed, db>>

Next ==
  \E t \in World.threads :
    \/ VerifyStart(t)
    \/ GetDbFails(t)
    \/ ClientLookup(t)
    \/ ClientConstruct(t)
    \/ AnalyzeSentiment(t)
    \/ AnalyzeSentimentAuto(t)
    \/ AnalyzeEntities(t)
    \/ ClassifyCategories(t)
    \/ Score(t)
    \/ Fallback(t)
    \/ ExplainStep(t)
    \/ FactCheckSearch(t)
    \/ FactCheckFails(t)
    \/ SummarizeStep(t)
    \/ SummarizeReturn(t)
    \/ Merge(t)
    \/ Save(t)
    \/ Return(t)
    \/ Abort(t)

\* one worker thread, every payload and provider response
Spec == Init /\ [][Next]_vars

\* one worker thread, every list of fact-check claims
SpecClaims == InitClaims /\ [][Next]_vars

\* concurrent worker threads
SpecThreads == InitThreads /\ [][Next]_vars


(***************************************************************************)
(* The claims                                                              *)
(***************************************************************************)
Threads == World.threads

StartsWith(line, prefix) ==
  Len(line) >= Len(prefix) /\ SubSeq(line, 1, Len(prefix)) = prefix

\* C1 as stated: every result classify_text returned, heuristic or fallback, has
\* a score in 0..100, a confidence in 0..1 and confidence = |score - 50| / 50
\* rounded to 2 decimals (|score - 50| / 50 is a whole number of hundredths).
C1_ConfidenceFormulaOnEveryPath ==
  \A t \in Threads :
    req[t].path # "" =>
      LET c == req[t].classified
      IN  /\ c.score \in 0..100
          /\ c.confidence \in 0..100
          /\ 50 * c.confidence = 100 * Abs(c.score - 50)

\* C1 amended: every result classify_text returned has a score in 0..100 and a
\* confidence in 0..1; on the heuristic path confidence = |score - 50| / 50
\* rounded to 2 decimals, on the fallback path score = 50 and confidence = 0.3.
C1_ScoreAndConfidence ==
  \A t \in Threads :
    req[t].path # "" =>
      LET c == req[t].classified
      IN  /\ c.score \in 0..100
          /\ c.confidence \in 0..100
          /\ req[t].path = "heuristic" => 50 * c.confidence = 100 * Abs(c.score - 50)
          /\ req[t].path = "fallback" => c.score = 50 /\ c.confidence = 30

\* C1 witness: a heuristic result at the bottom of the range, score 0 and confidence 1.0
C1_Witness ==
  \E t \in Threads :
    /\ req[t].path = "heuristic"
    /\ req[t].classified.score = 0
    /\ req[t].classified.confidence = 100

\* C2: in every result verify returns the label is decided by the score alone:
\* "true" exactly when score >= 70, "fake" exactly when score <= 30, and
\* "uncertain" otherwise.
C2_LabelFromScore ==
  \A t \in Threads :
    req[t].pc = "done" =>
      LET r == req[t].result
      IN  /\ r.label = "true" <=> r.score >= 70
          /\ r.label = "fake" <=> r.score <= 30
          /\ r.label = "uncertain" <=> (30 < r.score /\ r.score < 70)

\* C2 witness: a returned result whose heuristic label "fake" was overridden by the verdict "true"
C2_Witness ==
  \E t \in Threads :
    /\ req[t].pc = "done"
    /\ req[t].path = "heuristic"
    /\ req[t].classified.label = "fake"
    /\ req[t].fc_verdict = "true"
    /\ req[t].result.label = "true"

\* C3 as stated: whichever language-analysis step fails, classify_text never
\* raises to its caller.
C3_ClassifyTextNeverRaises ==
  \A t \in Threads : req[t].error # "analyze_entities"

\* C4: after the merge, label, score and confidence are overwritten exactly when
\* the fact-check verdict is "true" or "fake": label = verdict, score = 85 or 15,
\* confidence = 0.9 and "Fact Check verdict: {verdict}" is explanation line 0;
\* otherwise they are what classify_text produced and no verdict line is there.
C4_VerdictOverride ==
  \A t \in Threads :
    req[t].pc \in {"save", "done"} =>
      LET r == req[t].result
          c == req[t].classified
          v == req[t].fc_verdict
      IN  IF v \in {"true", "fake"}
            THEN /\ r.label = v
                 /\ r.score = (IF v = "true" THEN 85 ELSE 15)
                 /\ r.confidence = 90
                 /\ req[t].explanation[1] = "Fact Check verdict: " \o v
            ELSE /\ r.label = c.label
                 /\ r.score = c.score
                 /\ r.confidence = c.confidence
                 /\ \A i \in DOMAIN req[t].explanation :
                      ~StartsWith(req[t].explanation[i], "Fact Check verdict: ")

\* C4 witness: heuristic score 60 / "uncertain" merged with the verdict "fake"
C4_Witness ==
  \E t \in Threads :
    /\ req[t].pc = "save"
    /\ req[t].classified.score = 60
    /\ req[t].classified.label = "uncertain"
    /\ req[t].fc_verdict = "fake"
    /\ req[t].result.score = 15

C5_FakeKeywords == {"false", "fake", "pants on fire", "incorrect", "misleading"}
C5_TrueKeywords == {"true", "correct", "mostly true", "accurate"}

\* the lowercased ratings of the reviews of claims[:5] before position pos
C5_RatingsBefore(claims, pos) ==
  UNION {{RatingOf(Reviews(claims[c])[r]) :
            r \in {r \in 1..Len(Reviews(claims[c])) :
                     c < pos[1] \/ (c = pos[1] /\ r < pos[2])}} :
         c \in 1..Min(5, Len(claims))}

C5_Expected(ratings) ==
  IF \E g \in ratings : \E x \in C5_FakeKeywords : Contains(g, x) THEN "fake"
  ELSE IF \E g \in ratings : \E x \in C5_TrueKeywords : Contains(g, x) THEN "true"
  ELSE None

\* C5: while summarize_claims scans the reviews of the first 5 claims the running
\* verdict is "fake" if a rating scanned so far contains a fake keyword, else
\* "true" if one contains a true keyword, else empty (so "fake" never changes
\* again and "true" only fills an empty verdict); for a non-empty claim list the
\* returned verdict is that of all the reviews of the first 5 claims, whatever
\* their order, "uncertain" when empty; claims after the fifth have no effect.
C5_SummaryVerdict ==
  \A t \in Threads :
    LET r == req[t]
    IN  /\ r.pc = "summarize" =>
             r.verdict = C5_Expected(C5_RatingsBefore(r.claims, r.pos))
        /\ (r.pc \in {"merge", "save", "done"} /\ r.claims # <<>>) =>
             LET e == C5_Expected(C5_RatingsBefore(r.claims, <<6, 1>>))
             IN  r.fc_verdict = IF e = None THEN "uncertain" ELSE e

\* C5 witness: six claims, a true review in the first and a fake review only in the sixth
C5_Witness ==
  \E t \in Threads :
    /\ req[t].pc = "merge"
    /\ Len(req[t].claims) = 6
    /\ req[t].claims[1] = ClaimMixed
    /\ req[t].claims[5] = ClaimBare
    /\ req[t].claims[6] = ClaimFalse
    /\ req[t].fc_verdict = "true"

C6_Kind(line) ==
  CASE StartsWith(line, "Sensational writing patterns detected") -> 1
    [] StartsWith(line, "High emotional tone") -> 2
    [] StartsWith(line, "Grounded entities found") -> 3
    [] StartsWith(line, "Topical category hints") -> 4
    [] StartsWith(line, "Key entities") -> 5
    [] StartsWith(line, "Sensational terms in text") -> 6
    [] StartsWith(line, "Notable line") -> 7
    [] OTHER -> 0

\* C6: after the merge the explanation is the optional fact-check verdict line,
\* then the heuristic lines in the fixed order (penalty, emotional tone, grounded
\* entities, category hint, key entities, sensational terms, notable lines), then
\* the first min(3, n) of the n summary lines in order, also when the verdict is
\* "uncertain" and nothing was overridden.
C6_ExplanationOrder ==
  \A t \in Threads :
    req[t].pc = "save" =>
      LET e == req[t].explanation
          n == Len(e)
          v == IF n > 0 /\ StartsWith(e[1], "Fact Check verdict: ") THEN 1 ELSE 0
          k == Min(3, Len(req[t].fc_summary))
      IN  /\ n >= v + k
          /\ v = 1 <=> req[t].fc_verdict \in {"true", "fake"}
          /\ \A i \in 1..k : e[n - k + i] = req[t].fc_summary[i]
          /\ \A i \in (v + 1)..(n - k) : C6_Kind(e[i]) \in 1..7
          /\ \A i, j \in (v + 1)..(n - k) :
               i < j => \/ C6_Kind(e[i]) < C6_Kind(e[j])
                        \/ C6_Kind(e[i]) = 7 /\ C6_Kind(e[j]) = 7

\* C6 witness: verdict "uncertain", nothing overridden, and a review line appended last
C6_Witness ==
  \E t \in Threads :
    /\ req[t].pc = "save"
    /\ req[t].fc_verdict = "uncertain"
    /\ req[t].fc_summary # <<>>
    /\ req[t].explanation[Len(req[t].explanation)] = req[t].fc_summary[1]
    /\ Len(req[t].explanation) >= 5

\* C7 as stated: a fallback result for a text with a positive sensational penalty
\* is returned by verify, absent a verdict override, as "uncertain", 50, 0.3 with
\* an explanation that contains the generic fallback line.
C7_FallbackHasGenericLine ==
  \A t \in Threads :
    (/\ req[t].pc = "done"
     /\ req[t].path = "fallback"
     /\ req[t].fc_verdict \notin {"true", "fake"}
     /\ _text_red_flags(req[t].doc) > 0) =>
      /\ req[t].result.label = "uncertain"
      /\ req[t].result.score = 50
      /\ req[t].result.confidence = 30
      /\ \E i \in DOMAIN req[t].explanation : req[t].explanation[i] = GenericLine

\* C7 amended: such a result is returned as "uncertain", 50, 0.3 with an
\* explanation whose first line is the sensational-penalty note and that does not
\* contain the generic fallback line.
C7_FallbackHasPenaltyLine ==
  \A t \in Threads :
    (/\ req[t].pc = "done"
     /\ req[t].path = "fallback"
     /\ req[t].fc_verdict \notin {"true", "fake"}
     /\ _text_red_flags(req[t].doc) > 0) =>
      /\ req[t].result.label = "uncertain"
      /\ req[t].result.score = 50
      /\ req[t].result.confidence = 30
      /\ StartsWith(req[t].explanation[1], "Sensational writing patterns detected (penalty ")
      /\ \A i \in DOMAIN req[t].explanation : req[t].explanation[i] # GenericLine

\* C7 witness: the example text returned on the fallback path without a verdict
C7_Witness ==
  \E t \in Threads :
    /\ req[t].pc = "done"
    /\ req[t].path = "fallback"
    /\ req[t].text = ExampleText
    /\ req[t].fc_verdict = None
    /\ req[t].explanation[1] = "Sensational writing patterns detected (penalty 0.55)"

\* the threads that hold the client _client() gave them
C8_Holders ==
  {t \in Threads : req[t].pc \in {"sentiment", "sentiment_auto", "entities", "categories"}}

\* C8 as stated: the language-analysis client is constructed at most once in
\* the process and every call uses that same handle.
C8_ClientConstructedOnce ==
  /\ constructed <= 1
  /\ \A t1, t2 \in C8_Holders : req[t1].client = req[t2].client

\* C9 as stated: in every result of classify_text, sensational_terms holds at most
\* 10 words, distinct, lowercase, of the sensational vocabulary, occurring in the
\* text, in lexicographic order.
C9_SensationalTermsSortedDistinct ==
  \A t \in Threads :
    req[t].path # "" =>
      LET terms == req[t].classified.insights.sensational_terms
      IN  /\ Len(terms) <= 10
          /\ \A i \in DOMAIN terms :
               /\ terms[i] \in SENSATIONAL
               /\ Lower(terms[i]) = terms[i]
               /\ Contains(Lower(req[t].doc), terms[i])
          /\ \A i, j \in DOMAIN terms : i < j => StrLess(terms[i], terms[j])

C10_Sentiments(sent) == {i \in DOMAIN sent : sent[i].op = "analyze_sentiment"}

\* C10 as stated: within one classify_text call no sentiment-analysis request is
\* sent a second time.
C10_NoSecondSentimentRequest ==
  \A t \in Threads : Cardinality(C10_Sentiments(req[t].sent)) <= 1

\* C10 amended: within one classify_text call, after the sentiment-analysis
\* request fails it is sent once more, without the language code; after that one
\* fails too nothing more is sent and the call goes to the fallback result; the
\* entity and category requests are sent at most once.
C10_OneRetryWithoutLanguage ==
  \A t \in Threads :
    LET sent == req[t].sent
        first == [op |-> "analyze_sentiment", language_code |-> "en"]
        second == [op |-> "analyze_sentiment", language_code |-> "None"]
    IN  /\ Cardinality(C10_Sentiments(sent)) <= 2
        /\ Cardinality({i \in DOMAIN sent : sent[i].op = "analyze_entities"}) <= 1
        /\ Cardinality({i \in DOMAIN sent : sent[i].op = "classify_text"}) <= 1
        /\ sent # <<>> => sent[1] = first
        /\ Cardinality(C10_Sentiments(sent)) = 2 => sent[2] = second
        /\ req[t].pc = "sentiment_auto" => sent = <<first>>
        /\ (req[t].pc = "fallback" /\ req[t].client # NoClient) => sent = <<first, second>>
        /\ (req[t].path = "fallback" /\ req[t].client # NoClient) => sent = <<first, second>>

\* C10 witness: a call that sent both sentiment requests and returned the fallback result
C10_Witness ==
  \E t \in Threads :
    /\ req[t].path = "fallback"
    /\ Len(req[t].sent) = 2
    /\ req[t].pc = "done"

\* the entities among the first 25 whose metadata has wikipedia_url or mid
C11_GroundedInFirst25(entities) ==
  {i \in DOMAIN entities :
     /\ i <= 25
     /\ \E k \in {"wikipedia_url", "mid"} : k \in DOMAIN entities[i].metadata}

\* C11: when classify_text returns on the heuristic path (the entities it scored
\* are still at hand) the score never exceeds 85, and
\* the label "true" is given only when at least 5 of the first 25 entities
\* carry a grounding identifier (wikipedia_url or mid); with fewer grounded
\* entities the heuristic scorer never labels a text "true".
C11_TrueNeedsFiveGrounded ==
  \A t \in Threads :
    (req[t].path = "heuristic" /\ req[t].pc = "explain") =>
      LET c == req[t].classified
          grounded == Cardinality(C11_GroundedInFirst25(req[t].entities))
      IN  /\ c.score <= 85
          /\ c.label = "true" => grounded >= 5
          /\ grounded < 5 => c.score < 70

\* C11 witness: exactly 5 grounded entities among the first 25 (a 6th grounded
\* one lies beyond them) and the heuristic scorer returned 70, "true"
C11_Witness ==
  \E t \in Threads :
    /\ req[t].path = "heuristic"
    /\ req[t].pc = "explain"
    /\ Len(req[t].entities) > 25
    /\ Cardinality(C11_GroundedInFirst25(req[t].entities)) = 5
    /\ req[t].classified.score = 70
    /\ req[t].classified.label = "true"

=============================================================================
